---- MODULE Spec2Model ----
(***************************************************************************)
(* Hill cipher processor (src/src/process.rs).                             *)
(*                                                                         *)
(* A text is a sequence of characters, a character a one-letter string.    *)
(* Option<char> is a character or NoChar; Option<String> is a record       *)
(* [some, val].  A matrix is a record [rows, cols, data] with data in      *)
(* row-major order, as rulinalg's Matrix::new(rows, cols, data).  Matrix   *)
(* entries are f64 in the code; every value that occurs is an integer far  *)
(* below 2^53, so the entries are modelled as integers.                    *)
(***************************************************************************)
EXTENDS Integers, Sequences, FiniteSets, TLC

\* ------------------------------------------------------------------ bounds

\* Longest generated key (keys of every length 0..MaxKeyLen are generated).
MaxKeyLen == 4

\* Longest generated source text.
MaxSrcLen == 3

\* ------------------------------------------------------------ characters

DEFAULT_NAMESPACE ==
    << "A", "B", "C", "D", "E", "F", "G", "H", "I", "J", "K", "L", "M", "N", "O",
       "P", "Q", "R", "S", "T", "U", "V", "W", "X", "Y", "Z" >>

\* The ASCII lower-case letters, in the order of their upper-case forms.
LowerLetters ==
    << "a", "b", "c", "d", "e", "f", "g", "h", "i", "j", "k", "l", "m", "n", "o",
       "p", "q", "r", "s", "t", "u", "v", "w", "x", "y", "z" >>

NoChar == "None"

NoString == [some |-> FALSE, val |-> << >>]

SomeString(s) == [some |-> TRUE, val |-> s]

\* char::to_ascii_uppercase; on the ASCII characters used here this is also
\* what str::to_uppercase does to each character.
ToUpperChar(c) ==
    IF \E i \in 1..Len(LowerLetters) : LowerLetters[i] = c
    THEN DEFAULT_NAMESPACE[CHOOSE i \in 1..Len(LowerLetters) : LowerLetters[i] = c]
    ELSE c

to_uppercase(txt) == [i \in 1..Len(txt) |-> ToUpperChar(txt[i])]

\* char.to_string().repeat(reps)
Repeat(c, reps) == [i \in 1..reps |-> c]

\* ------------------------------------------------------------- arithmetic

Abs(x) == IF x < 0 THEN -x ELSE x

\* Rust's integer / and % truncate toward zero; b # 0.
TruncDiv(a, b) ==
    IF (a < 0) = (b < 0) THEN Abs(a) \div Abs(b) ELSE -(Abs(a) \div Abs(b))

TruncRem(a, b) == a - b * TruncDiv(a, b)

\* (num as f64).sqrt().floor(), exact for the small lengths used.
FloorSqrt(num) == CHOOSE k \in 0..num : k * k <= num /\ num < (k + 1) * (k + 1)

is_square(num) == num = 0 \/ num = 1 \/ FloorSqrt(num) * FloorSqrt(num) = num

\* target % num; the code panics (division by zero) when num = 0.
is_divisble(target, num) == target % num = 0

\* A variant of turn_divisible that always adds a whole block.
turn_divisible_whole_block(target, dim) == target + dim

\* The loop of turn_divisible: the first base >= target divisible by dim.
turn_divisible(target, dim) ==
    CHOOSE base \in target..(target + dim) :
        /\ base % dim = 0
        /\ \A b \in target..(base - 1) : b % dim # 0

has_any_factor(target, number) ==
    \E factor \in target..(number - 1) : target % factor = 0

euc_mod(a, b) ==
    IF a >= 0 THEN a % b
    ELSE b - ((-a - 1) % b) - 1

\* modinverse::egcd on i128: <<g, x, y>> with a*x + b*y = g.
RECURSIVE egcd(_, _)
egcd(a, b) ==
    IF a = 0 THEN << b, 0, 1 >>
    ELSE LET r == egcd(TruncRem(b, a), a)
         IN  << r[1], r[3] - TruncDiv(b, a) * r[2], r[2] >>

NoInverse == -1

\* modinverse::modinverse(a, m): None (NoInverse) unless egcd's g is 1.
\* (x % m + m) % m, with Rust's truncating %; m > 0.
modinverse(a, m) ==
    LET r == egcd(a, m)
    IN  IF r[1] # 1 THEN NoInverse
        ELSE TruncRem(TruncRem(r[2], m) + m, m)

\* --------------------------------------------------------------- matrices

\* rulinalg Matrix::new(rows, cols, data); it panics unless
\* rows * cols = data.len() (see MatrixNewOk).
MatrixNew(rows, cols, data) == [rows |-> rows, cols |-> cols, data |-> data]

MatrixNewOk(rows, cols, data) == rows * cols = Len(data)

\* Entry (i, j), both counted from 0.
At(m, i, j) == m.data[i * m.cols + j + 1]

Transpose(m) ==
    [rows |-> m.cols, cols |-> m.rows,
     data |-> [k \in 1..(m.rows * m.cols) |->
                  At(m, (k - 1) % m.rows, (k - 1) \div m.rows)]]

RECURSIVE SumTo(_, _)
\* f[0] + ... + f[n-1]
SumTo(f, n) == IF n = 0 THEN 0 ELSE SumTo(f, n - 1) + f[n - 1]

\* key_mtrx * src_mtrx
MatMul(a, b) ==
    [rows |-> a.rows, cols |-> b.cols,
     data |-> [k \in 1..(a.rows * b.cols) |->
                  LET i == (k - 1) \div b.cols
                      j == (k - 1) % b.cols
                  IN  SumTo([t \in 0..(a.cols - 1) |-> At(a, i, t) * At(b, t, j)],
                            a.cols)]]

\* m without row i and column j.
Minor(m, i, j) ==
    LET n == m.rows - 1
    IN  [rows |-> n, cols |-> n,
         data |-> [k \in 1..(n * n) |->
                      LET r == (k - 1) \div n
                          c == (k - 1) % n
                      IN  At(m, IF r < i THEN r ELSE r + 1,
                                IF c < j THEN c ELSE c + 1)]]

Sign(k) == IF k % 2 = 0 THEN 1 ELSE -1

RECURSIVE Determinant(_)
\* The determinant of a square integer matrix, by expansion along row 0
\* (1 for the 0 x 0 matrix).
Determinant(m) ==
    IF m.rows = 0 THEN 1
    ELSE SumTo([j \in 0..(m.cols - 1) |->
                   Sign(j) * At(m, 0, j) * Determinant(Minor(m, 0, j))], m.cols)

\* Matrix::is_diag: every entry off the diagonal is 0.
IsDiag(m) ==
    \A i \in 0..(m.rows - 1), j \in 0..(m.cols - 1) : i # j => At(m, i, j) = 0

\* x as i128 for an f64 x just below the integer d in magnitude.
TowardZero(d) == IF d > 0 THEN d - 1 ELSE IF d < 0 THEN d + 1 ELSE 0

\* 4 x 4 key matrices (row-major data) whose f64 LU product is the exact
\* determinant: key "AFJCRXLUDNLZ@$^?" of the tests (43667.0).
LuExact ==
    { << 0, 17, 3, 27, 5, 23, 13, 28, 9, 11, 11, 29, 2, 20, 25, 33 >> }

\* 4 x 4 key matrices whose f64 LU product falls just below the exact
\* determinant in magnitude: key "EETTK QIA-CN^K/C" over the tests'
\* namespace (81865.99999999997 for 81866).
LuBelow ==
    { << 4, 10, 0, 29, 4, 26, 35, 10, 19, 16, 2, 32, 19, 8, 13, 2 >> }

\* The values `m.det() as i128` can take.  rulinalg's Matrix::det is the
\* diagonal's product for a diagonal matrix and the closed formulas for
\* n <= 3, exact on these small integers; for n >= 4 it is the product of
\* the diagonal of a partial-pivoting LU decomposition in f64, which can
\* fall just short of the integer, and the cast truncates toward zero.
Det(m) ==
    IF m.rows <= 3 \/ IsDiag(m) THEN { Determinant(m) }
    ELSE IF m.data \in LuExact THEN { Determinant(m) }
    ELSE IF m.data \in LuBelow THEN { TowardZero(Determinant(m)) }
    ELSE { Determinant(m), TowardZero(Determinant(m)) }

\* The adjugate: det * inverse, the integer matrix the code recovers by
\* rounding.
Adjugate(m) ==
    [rows |-> m.rows, cols |-> m.cols,
     data |-> [k \in 1..(m.rows * m.cols) |->
                  LET i == (k - 1) \div m.cols
                      j == (k - 1) % m.cols
                  IN  Sign(i + j) * Determinant(Minor(m, j, i))]]

\* Matrix::inverse succeeds unless the matrix is singular.
InverseOk(m) == Determinant(m) # 0

\* decipher's map over the inverse: ((v * mod_mul_inv) * key_mtrx_det).round()
\* with v = adj / det is adj * mod_mul_inv.
ScaledInverse(m, mod_mul_inv) ==
    LET adj == Adjugate(m)
    IN  [adj EXCEPT !.data = [k \in 1..Len(adj.data) |-> adj.data[k] * mod_mul_inv]]

\* ------------------------------------------------------ process.rs helpers

InNamespace(c, ns) == \E i \in 1..Len(ns) : ns[i] = c

\* namespace.iter().position(|&c| c == char.to_ascii_uppercase()): the first
\* index, from 0; the code unwraps it and panics when there is none.
CharPosOk(c, ns) == InNamespace(ToUpperChar(c), ns)

char_pos(c, ns) ==
    (CHOOSE i \in 1..Len(ns) :
        /\ ns[i] = ToUpperChar(c)
        /\ \A j \in 1..(i - 1) : ns[j] # ToUpperChar(c)) - 1

\* txt_mtrx_repr returns normally only if no char_pos unwrap and not
\* Matrix::new's size assertion panic.
TxtMtrxReprOk(rows, cols, src, ns) ==
    /\ \A i \in 1..Len(src) : CharPosOk(src[i], ns)
    /\ MatrixNewOk(rows, cols, src)

txt_mtrx_repr(rows, cols, src, ns) ==
    Transpose(MatrixNew(rows, cols, [i \in 1..Len(src) |-> char_pos(src[i], ns)]))

\* A variant of fill_txt that upper-cases the text and appends nothing.
fill_txt_no_append(txt, c, a, b) == to_uppercase(txt)

fill_txt(txt, c, a, b) ==
    LET reps == a - b
    IN  IF reps # 0 THEN to_uppercase(txt \o Repeat(c, reps)) ELSE txt

\* A variant of translate_txt_mtrx that reads the product without transposing.
translate_txt_mtrx_no_transpose(key_mtrx, src_mtrx, ns) ==
    LET mtrx_mul == MatMul(key_mtrx, src_mtrx)
    IN  [k \in 1..Len(mtrx_mul.data) |-> ns[euc_mod(mtrx_mul.data[k], Len(ns)) + 1]]

translate_txt_mtrx(key_mtrx, src_mtrx, ns) ==
    LET mtrx_mul == Transpose(MatMul(key_mtrx, src_mtrx))
    IN  [k \in 1..Len(mtrx_mul.data) |-> ns[euc_mod(mtrx_mul.data[k], Len(ns)) + 1]]

\* Regex (.)\1{1,}: some character directly followed by itself.
HasRepeat(namespace) ==
    \E i \in 1..(Len(namespace) - 1) : namespace[i] = namespace[i + 1]

\* check_namespace returns Ok
check_namespace(namespace) == ~HasRepeat(namespace)

\* check_key_mtrx_validness returns Ok, for det the value of *det as i128
\* (a determinant truncated to 0 is refused by modinverse); the || chain
\* short-circuits, so has_any_factor is not reached with det = 0.
check_key_mtrx_validness(det, ns_len) ==
    ~(\/ det = 0
      \/ modinverse(det, ns_len) = NoInverse
      \/ has_any_factor(Abs(det), ns_len))

\* ------------------------------------------------------------------ state

VARIABLES
    op,           \* "cipher" or "decipher": the method invoked on the Processor
    key,          \* Processor.key
    source,       \* Processor.source
    fill_letter,  \* Processor.fill_letter: a character or NoChar
    namespace,    \* Processor.namespace: Option<String>
    pc,           \* where the invocation stands
    ns,           \* the namespace in use, def_namespace's result
    src_txt,      \* cipher's local `source`: the text after padding
    was_filled,   \* cipher's local was_filled
    key_mtrx,     \* the matrix multiplied with: the key's, or its scaled inverse
    src_mtrx,     \* the source text's matrix
    result_txt,   \* the rendered text
    report,       \* the Report returned, [some |-> FALSE] before
    plain         \* the text a previous cipher run processed, for a decipher
                  \* run started on that run's result

vars == << op, key, source, fill_letter, namespace, pc, ns, src_txt, was_filled,
           key_mtrx, src_mtrx, result_txt, report, plain >>

NoMatrix == MatrixNew(0, 0, << >>)

NoReport == [some |-> FALSE]

\* (self.key.len() as f64).sqrt() as usize
Dimension == FloorSqrt(Len(key))

\* ----------------------------------------------------------------- inputs

RECURSIVE Texts(_, _)
\* Every text over `chars` of length at most n.
Texts(chars, n) ==
    IF n = 0 THEN { << >> }
    ELSE LET shorter == Texts(chars, n - 1)
         IN  shorter \cup { Append(t, c) : t \in { u \in shorter : Len(u) = n - 1 },
                                          c \in chars }

SmallNamespace == << "A", "B", "C", "D" >>

\* Keys over the small namespace, every one up to MaxKeyLen characters.
SmallKeys == Texts({ "A", "B", "C", "D" }, MaxKeyLen)

SmallSources == Texts({ "B", "D" }, MaxSrcLen)

\* Custom namespaces: well formed, with a repeated symbol (adjacent and
\* not), and of a length that is not square.
CustomNamespaces ==
    { SmallNamespace,
      << "A", "B", "C", "A" >>,
      << "A", "A", "B", "C" >>,
      << "A", "B", "C" >>,
      << "A", "B", "A" >>,
      << "A", "B", "C", "D", "E", "F", "G", "H", "I" >> }

Namespaces == { NoString } \cup { SomeString(n) : n \in CustomNamespaces }

\* Keys tried with every namespace: accepted ones and rejected ones of
\* dimension 0 to 3, with an unknown or lower-case character, not square.
SampleKeys ==
    { << >>,
      << "D" >>,
      << "A", "B" >>,
      << "D", "A", "A", "D" >>,
      << "D", "B", "C", "D" >>,
      << "B", "A", "A", "B" >>,
      << "B", "D", "B", "D" >>,
      << "F", "A", "A", "H" >>,
      << "F", "a", "A", "H" >>,
      << "D", "A", "?", "D" >>,
      << "F", "J", "C", "R", "X", "L", "U", "D", "N" >>,
      << "A", "B", "C", "D", "E", "F", "G", "H", "I" >> }

\* Source texts tried with every namespace: known, lower-case and unknown
\* characters, and the texts of the repository's tests.
SampleSources ==
    Texts({ "B", "b", "?" }, MaxSrcLen)
    \cup { << "C", "O", "D", "I", "G", "O" >>,
           << "c", "o", "d", "i", "g", "o" >>,
           << "W", "L", "P", "G", "S", "E" >>,
           << "A", "B", "C", "D" >>,
           << "D", "b", "B", "D" >> }

\* The custom namespace of the repository's tests: 36 symbols.
TestNamespace ==
    << "A", "B", "C", "D", "E", "F", "G", "H", "I", "J", "K", "L", "M", "N", "O", "P", "Q", "R" >>
    \o << "S", "T", "U", "V", "W", "X", "Y", "Z", " ", "@", "$", "^", "&", "*", "/", "?", ".", "-" >>

\* 4 x 4 keys over TestNamespace: the tests' key, and a key whose
\* determinant 81866 the f64 computation gives as 81865.99999999997.
TestKeys ==
    { << "A", "F", "J", "C", "R", "X", "L", "U", "D", "N", "L", "Z", "@", "$", "^", "?" >>,
      << "E", "E", "T", "T", "K", " ", "Q", "I", "A", "-", "C", "N", "^", "K", "/", "C" >> }

\* The tests' plaintext and ciphertext under TestNamespace, and a text of
\* one block.
TestSources ==
    { << "T", "E", "S", "T", " ", "C", "O", "D", "I", "G", "O" >>,
      << "X", "R", "$", "H", "N", "K", "^", "B", "J", "Q", "@", "?" >>,
      << "T", "E", "S", "T" >> }

FillLetters == { NoChar, "C", "c", "E" }

Start(o, k, s, f, n, p) ==
    /\ op = o
    /\ key = k
    /\ source = s
    /\ fill_letter = f
    /\ namespace = n
    /\ pc = "Received"
    /\ ns = << >>
    /\ src_txt = << >>
    /\ was_filled = FALSE
    /\ key_mtrx = NoMatrix
    /\ src_mtrx = NoMatrix
    /\ result_txt = << >>
    /\ report = NoReport
    /\ plain = p

\* A Processor built with any of the inputs, about to run cipher or decipher.
Init ==
    \E o \in { "cipher", "decipher" } :
        \/ \E k \in SmallKeys, s \in SmallSources, f \in { NoChar, "C" } :
               Start(o, k, s, f, SomeString(SmallNamespace), NoString)
        \/ \E k \in SampleKeys, s \in SampleSources, f \in FillLetters,
              n \in Namespaces :
               Start(o, k, s, f, n, NoString)
        \/ \E k \in TestKeys, s \in TestSources :
               Start(o, k, s, "H", SomeString(TestNamespace), NoString)

\* ---------------------------------------------------------------- actions

\* def_namespace (with check_namespace), the first step of cipher and decipher.
DefNamespace ==
    /\ pc = "Received"
    /\ IF ~namespace.some
       THEN /\ ns' = DEFAULT_NAMESPACE
            /\ pc' = "NamespaceResolved"
       ELSE IF ~check_namespace(namespace.val)
       THEN /\ pc' = "Error"
            /\ UNCHANGED ns
       ELSE IF ~is_square(Len(namespace.val))
       THEN /\ pc' = "Error"
            /\ UNCHANGED ns
       ELSE /\ ns' = namespace.val
            /\ pc' = "NamespaceResolved"
    /\ UNCHANGED << op, key, source, fill_letter, namespace, src_txt, was_filled,
                    key_mtrx, src_mtrx, result_txt, report, plain >>

\* A variant of check_information whose loop stops after the key.
InformationOk_key_only ==
    /\ is_square(Len(key))
    /\ fill_letter # NoChar => InNamespace(fill_letter, ns)
    /\ \A i \in 1..Len(key) : InNamespace(key[i], ns)

\* check_information returns Ok: the key's length is square, the fill letter
\* (if any), the key's and the source's characters are in the namespace.
InformationOk ==
    /\ is_square(Len(key))
    /\ fill_letter # NoChar => InNamespace(fill_letter, ns)
    /\ \A i \in 1..Len(key) : InNamespace(key[i], ns)
    /\ \A i \in 1..Len(source) : InNamespace(source[i], ns)

CheckInformation ==
    /\ pc = "NamespaceResolved"
    /\ pc' = IF InformationOk THEN "Validated" ELSE "Error"
    /\ UNCHANGED << op, key, source, fill_letter, namespace, ns, src_txt,
                    was_filled, key_mtrx, src_mtrx, result_txt, report, plain >>

\* cipher, the padding of the source text.  is_divisble divides by the
\* dimension (a panic when it is 0); fill_letter.unwrap() panics on None.
PadSource ==
    /\ pc = "Validated"
    /\ op = "cipher"
    /\ IF Dimension = 0
       THEN /\ pc' = "Panicked"
            /\ UNCHANGED << src_txt, was_filled >>
       ELSE IF is_divisble(Len(source), Dimension)
       THEN /\ src_txt' = to_uppercase(source)
            /\ was_filled' = FALSE
            /\ pc' = "Padded"
       ELSE IF fill_letter = NoChar
       THEN /\ pc' = "Panicked"
            /\ UNCHANGED << src_txt, was_filled >>
       ELSE /\ src_txt' = fill_txt(source, fill_letter,
                                   turn_divisible(Len(source), Dimension),
                                   Len(source))
            /\ was_filled' = TRUE
            /\ pc' = "Padded"
    /\ UNCHANGED << op, key, source, fill_letter, namespace, ns, key_mtrx,
                    src_mtrx, result_txt, report, plain >>

\* cipher: the key's matrix, its determinant, check_key_mtrx_validness and
\* the padded source's matrix.
CipherMatrices ==
    /\ pc = "Padded"
    /\ IF ~TxtMtrxReprOk(Dimension, Dimension, key, ns)
       THEN /\ pc' = "Panicked"
            /\ UNCHANGED << key_mtrx, src_mtrx >>
       ELSE LET key_mtrx_repr == txt_mtrx_repr(Dimension, Dimension, key, ns)
                rows == Len(src_txt) \div Dimension
            IN  \E key_mtrx_det \in Det(key_mtrx_repr) :
                IF ~check_key_mtrx_validness(key_mtrx_det, Len(ns))
                THEN /\ pc' = "Error"
                     /\ UNCHANGED << key_mtrx, src_mtrx >>
                ELSE IF ~TxtMtrxReprOk(rows, Dimension, src_txt, ns)
                THEN /\ pc' = "Panicked"
                     /\ UNCHANGED << key_mtrx, src_mtrx >>
                ELSE /\ key_mtrx' = key_mtrx_repr
                     /\ src_mtrx' = txt_mtrx_repr(rows, Dimension, src_txt, ns)
                     /\ pc' = "MatrixBuilt"
    /\ UNCHANGED << op, key, source, fill_letter, namespace, ns, src_txt,
                    was_filled, result_txt, report, plain >>

\* decipher: the key's matrix, its inverse, check_key_mtrx_validness and the
\* inverse scaled by the determinant's modular inverse.
InvertKey ==
    /\ pc = "Validated"
    /\ op = "decipher"
    /\ IF ~TxtMtrxReprOk(Dimension, Dimension, key, ns)
       THEN /\ pc' = "Panicked"
            /\ UNCHANGED key_mtrx
       ELSE LET key_mtrx_repr == txt_mtrx_repr(Dimension, Dimension, key, ns)
            IN  \E key_mtrx_det \in Det(key_mtrx_repr) :
                IF ~InverseOk(key_mtrx_repr)
                THEN /\ pc' = "Error"
                     /\ UNCHANGED key_mtrx
                ELSE IF ~check_key_mtrx_validness(key_mtrx_det, Len(ns))
                THEN /\ pc' = "Error"
                     /\ UNCHANGED key_mtrx
                ELSE IF modinverse(key_mtrx_det, Len(ns)) = NoInverse
                THEN /\ pc' = "Panicked"   \* modinverse(..).unwrap()
                     /\ UNCHANGED key_mtrx
                ELSE /\ key_mtrx' = ScaledInverse(key_mtrx_repr,
                                                  modinverse(key_mtrx_det, Len(ns)))
                     /\ pc' = "KeyInverted"
    /\ UNCHANGED << op, key, source, fill_letter, namespace, ns, src_txt,
                    was_filled, src_mtrx, result_txt, report, plain >>

\* decipher: the ciphertext's matrix, source.len() / dimension rows of
\* dimension columns; Matrix::new panics when that is not the text's length.
DecipherSrcMatrix ==
    /\ pc = "KeyInverted"
    /\ IF Dimension = 0
       THEN /\ pc' = "Panicked"
            /\ UNCHANGED << src_txt, src_mtrx >>
       ELSE IF ~TxtMtrxReprOk(Len(source) \div Dimension, Dimension, source, ns)
       THEN /\ pc' = "Panicked"
            /\ UNCHANGED << src_txt, src_mtrx >>
       ELSE /\ src_txt' = source
            /\ src_mtrx' = txt_mtrx_repr(Len(source) \div Dimension, Dimension,
                                         source, ns)
            /\ pc' = "MatrixBuilt"
    /\ UNCHANGED << op, key, source, fill_letter, namespace, ns, was_filled,
                    key_mtrx, result_txt, report, plain >>

\* translate_txt_mtrx: the product, rendered in the namespace.
Translate ==
    /\ pc = "MatrixBuilt"
    /\ result_txt' = translate_txt_mtrx(key_mtrx, src_mtrx, ns)
    /\ pc' = "Rendered"
    /\ UNCHANGED << op, key, source, fill_letter, namespace, ns, src_txt,
                    was_filled, key_mtrx, src_mtrx, report, plain >>

\* A variant of build_report that reports the text as processed (padded and
\* upper-cased) instead of the source given.
build_report_processed_source(res_text, filled) ==
    [some |-> TRUE,
     used_key |-> key,
     source_txt |-> src_txt,
     result_txt |-> res_text,
     fill_letter |-> fill_letter,
     filled |-> filled,
     def_namespace |-> namespace]

\* build_report(res_text, filled): filled is was_filled in cipher, false in
\* decipher.
build_report(res_text, filled) ==
    [some |-> TRUE,
     used_key |-> key,
     source_txt |-> source,
     result_txt |-> res_text,
     fill_letter |-> fill_letter,
     filled |-> filled,
     def_namespace |-> namespace]

BuildReport ==
    /\ pc = "Rendered"
    /\ report' = build_report(result_txt, IF op = "cipher" THEN was_filled ELSE FALSE)
    /\ pc' = "Reported"
    /\ UNCHANGED << op, key, source, fill_letter, namespace, ns, src_txt,
                    was_filled, key_mtrx, src_mtrx, result_txt, plain >>

\* A second Processor deciphers the result of a finished cipher run, with
\* the same key, fill letter and namespace.
DecipherResult ==
    /\ pc = "Reported"
    /\ op = "cipher"
    /\ op' = "decipher"
    /\ source' = report.result_txt
    /\ plain' = SomeString(src_txt)
    /\ pc' = "Received"
    /\ ns' = << >>
    /\ src_txt' = << >>
    /\ was_filled' = FALSE
    /\ key_mtrx' = NoMatrix
    /\ src_mtrx' = NoMatrix
    /\ result_txt' = << >>
    /\ report' = NoReport
    /\ UNCHANGED << key, fill_letter, namespace >>

Next ==
    \/ DefNamespace
    \/ CheckInformation
    \/ PadSource
    \/ CipherMatrices
    \/ InvertKey
    \/ DecipherSrcMatrix
    \/ Translate
    \/ BuildReport
    \/ DecipherResult

Spec == Init /\ [][Next]_vars

\* ------------------------------------------------------- shared predicates

Terminal == pc \in { "Reported", "Error", "Panicked" }

\* The namespace the inputs call for, whatever the run has done so far.
GivenNamespace == IF namespace.some THEN namespace.val ELSE DEFAULT_NAMESPACE

HasDuplicate(txt) == \E i, j \in 1..Len(txt) : i # j /\ txt[i] = txt[j]

RECURSIVE GCD(_, _)
GCD(a, b) == IF b = 0 THEN a ELSE GCD(b, a % b)

KeyOverNamespace ==
    /\ is_square(Len(key))
    /\ \A i \in 1..Len(key) : InNamespace(key[i], GivenNamespace)

SourceOverNamespace == \A i \in 1..Len(source) : InNamespace(source[i], GivenNamespace)

FillOverNamespace == fill_letter # NoChar => InNamespace(fill_letter, GivenNamespace)

\* The determinant of the key's matrix (for a key over the namespace).
\* The determinant of the key's matrix, as mathematics has it.
KeyDet == Determinant(txt_mtrx_repr(Dimension, Dimension, key, GivenNamespace))

\* det has a multiplicative inverse modulo N.
InvertibleMod(det, n) == det # 0 /\ GCD(Abs(det), n) = 1

\* def_namespace has returned a namespace.
Resolved == pc \notin { "Received", "Error" } \/ (pc = "Error" /\ ns # << >>)

\* ------------------------------------------------------------------ claims

\* C1 (as claimed): with an accepted namespace, a key of square length d*d
\* (d >= 1) over it whose determinant is invertible modulo N, a fill letter
\* and a source text over it, cipher ends with a Report, and decipher run on
\* that result ends with a Report whose result_txt is the padded source.
C1_RoundTrip ==
    ( /\ Terminal
      /\ Resolved
      /\ op = "cipher" \/ plain.some
      /\ Dimension >= 1
      /\ KeyOverNamespace
      /\ SourceOverNamespace
      /\ fill_letter # NoChar
      /\ FillOverNamespace
      /\ InvertibleMod(KeyDet, Len(GivenNamespace)) )
    => /\ pc = "Reported"
       /\ (op = "decipher" /\ plain.some) => report.result_txt = plain.val

\* C2 (as claimed): a square-length key over the namespace whose determinant
\* is 0 or has no inverse modulo N never leads to a Report: cipher (called
\* with a fill letter, as the command line always does) and decipher (with
\* or without one) end in Error, whatever the source text.
C2_KeyRejection ==
    ( /\ KeyOverNamespace
      /\ op = "cipher" => fill_letter # NoChar
      /\ ~InvertibleMod(KeyDet, Len(GivenNamespace)) )
    => /\ pc \notin { "KeyInverted", "MatrixBuilt", "Rendered", "Reported", "Panicked" }
       /\ ~report.some
       /\ Terminal => pc = "Error"

\* C3 (as claimed): after validation of the inputs, a run ends in Error only
\* if the key's determinant is 0 or has no inverse modulo N.
C3_KeyAcceptance ==
    ( /\ pc = "Error"
      /\ Resolved
      /\ InformationOk
      /\ Dimension >= 1 )
    => ~InvertibleMod(KeyDet, Len(ns))

\* C4: when the fill letter, a character of the key or a character of the
\* source is not a symbol of the namespace, the run never gets past the
\* validation: no padding, no matrix, no panic, no Report, and it ends in
\* Error.
C4_Membership ==
    ~(FillOverNamespace /\ SourceOverNamespace
      /\ \A i \in 1..Len(key) : InNamespace(key[i], GivenNamespace))
    => /\ pc \in { "Received", "NamespaceResolved", "Error" }
       /\ ~report.some
       /\ result_txt = << >>

\* C4's case: the namespace is resolved, the key and the fill letter pass,
\* and a character of the source is unknown: the check has ended in Error.
C4_Witness ==
    /\ pc = "Error"
    /\ Resolved
    /\ KeyOverNamespace
    /\ fill_letter # NoChar
    /\ FillOverNamespace
    /\ ~SourceOverNamespace

\* C5 (as claimed): a custom namespace with a symbol occurring twice, or of
\* a length that is not square, is rejected, so the namespace in use has no
\* duplicate; with no custom namespace the default A-Z is in use.
C5_NamespaceResolution ==
    /\ ( /\ namespace.some
         /\ pc # "Received"
         /\ HasDuplicate(namespace.val) \/ ~is_square(Len(namespace.val)) )
       => pc = "Error" /\ ns = << >>
    /\ ~HasDuplicate(ns)
    /\ (~namespace.some /\ pc # "Received") => ns = DEFAULT_NAMESPACE

\* The key has passed check_key_mtrx_validness (for a key over the namespace).
KeyAccepted ==
    /\ KeyOverNamespace
    /\ Dimension >= 1
    /\ \E key_mtrx_det \in Det(txt_mtrx_repr(Dimension, Dimension, key,
                                               GivenNamespace)) :
           check_key_mtrx_validness(key_mtrx_det, Len(GivenNamespace))

\* C6 (as claimed): decipher with an accepted key of dimension d and a
\* source over the namespace whose length is not a multiple of d ends in
\* Error, with no Report and no abort.
C6_MalformedCiphertext ==
    ( /\ op = "decipher"
      /\ Resolved
      /\ InformationOk
      /\ KeyAccepted
      /\ Len(source) % Dimension # 0 )
    => /\ pc \notin { "Panicked", "MatrixBuilt", "Rendered", "Reported" }
       /\ ~report.some
       /\ Terminal => pc = "Error"

\* The smallest multiple of d that is at least n (d >= 1).
PadTarget(n, d) == CHOOSE t \in n..(n + d - 1) : t % d = 0

\* The cipher run has passed the padding step.
PastPadding ==
    /\ op = "cipher"
    /\ \/ pc \in { "Padded", "MatrixBuilt", "Rendered", "Reported" }
       \/ (pc = "Error" /\ Resolved /\ InformationOk)

\* C7: once cipher has conditioned the source (length n, key dimension
\* d >= 1), was_filled is true exactly if d does not divide n, and the text
\* processed is the upper-cased source followed by t - n < d copies of the
\* fill letter, t the smallest multiple of d with t >= n (nothing appended
\* when d divides n); a Report's filled field is was_filled.
C7_PaddingPolicy ==
    PastPadding =>
        LET n == Len(source)
            d == Dimension
            t == PadTarget(n, d)
        IN  /\ d >= 1
            /\ was_filled <=> (n % d # 0)
            /\ t - n < d
            /\ Len(src_txt) = t
            /\ src_txt = to_uppercase(source) \o Repeat(fill_letter, t - n)
            /\ n % d = 0 => src_txt = to_uppercase(source)
            /\ pc = "Reported" => report.filled = was_filled

\* C7's case: cipher has padded a source with two fill letters (d = 3).
C7_Witness ==
    /\ op = "cipher"
    /\ pc = "Padded"
    /\ was_filled
    /\ Dimension = 3
    /\ Len(src_txt) = Len(source) + 2

\* The index of the result symbol at block k, row i, as the claim states it.
BlockSum(k, i, d, n) ==
    SumTo([j \in 0..(d - 1) |->
              char_pos(key[j * d + i + 1], ns) * char_pos(src_txt[k * d + j + 1], ns)],
          d) % n

\* C8: cipher's result has the padded source's length, and its character
\* at position k*d + i is the namespace symbol of index
\* (sum over j < d of idx(key[j*d + i]) * idx(padded[k*d + j])) mod N; with
\* the default namespace, key FJCRXLUDN and source CODIGO the Report holds
\* WLPGSE and filled = false.
C8_CipherTransform ==
    (op = "cipher" /\ pc \in { "Rendered", "Reported" }) =>
        LET d == Dimension
            n == Len(ns)
        IN  /\ Len(result_txt) = Len(src_txt)
            /\ \A k \in 0..((Len(src_txt) \div d) - 1) : \A i \in 0..(d - 1) :
                   result_txt[k * d + i + 1] = ns[BlockSum(k, i, d, n) + 1]
            /\ ( /\ pc = "Reported"
                 /\ ~namespace.some
                 /\ key = << "F", "J", "C", "R", "X", "L", "U", "D", "N" >>
                 /\ source = << "C", "O", "D", "I", "G", "O" >> )
               => /\ report.result_txt = << "W", "L", "P", "G", "S", "E" >>
                  /\ report.filled = FALSE

\* C8's case: the literal scenario has ended with its Report.
C8_Witness ==
    /\ op = "cipher"
    /\ pc = "Reported"
    /\ ~namespace.some
    /\ key = << "F", "J", "C", "R", "X", "L", "U", "D", "N" >>
    /\ source = << "C", "O", "D", "I", "G", "O" >>
    /\ report.result_txt = << "W", "L", "P", "G", "S", "E" >>

\* The padding scenario: default namespace, key ABCDEFGHI, source ABCD,
\* fill letter E, cipher.
PaddingScenario ==
    /\ op = "cipher"
    /\ ~namespace.some
    /\ key = << "A", "B", "C", "D", "E", "F", "G", "H", "I" >>
    /\ source = << "A", "B", "C", "D" >>
    /\ fill_letter = "E"

\* C9 (as claimed): the padding scenario pads the source to ABCDEE and ends
\* with a Report whose filled field is true.
C9_PaddingScenario_Original ==
    (PaddingScenario /\ Terminal) =>
        /\ src_txt = << "A", "B", "C", "D", "E", "E" >>
        /\ pc = "Reported"
        /\ report.filled = TRUE

\* C9 (amended): the padding scenario pads the source to ABCDEE with
\* was_filled = true, and then ends in Error with no Report, the key's
\* matrix having determinant 0.
C9_PaddingScenario ==
    PaddingScenario =>
        /\ pc \in { "Received", "NamespaceResolved", "Validated", "Padded", "Error" }
        /\ pc \in { "Padded", "Error" } =>
               /\ src_txt = << "A", "B", "C", "D", "E", "E" >>
               /\ was_filled = TRUE
        /\ Terminal => (pc = "Error" /\ ~report.some /\ KeyDet = 0)

\* C9's case: the scenario has padded and ended.
C9_Witness ==
    /\ PaddingScenario
    /\ pc = "Error"
    /\ src_txt = << "A", "B", "C", "D", "E", "E" >>

\* What cipher returns for source text s with the run's key, fill letter and
\* namespace (an accepted key).
CipherOf(s) ==
    LET d == Dimension
        padded == IF is_divisble(Len(s), d) THEN to_uppercase(s)
                  ELSE fill_txt(s, fill_letter, turn_divisible(Len(s), d), Len(s))
    IN  translate_txt_mtrx(txt_mtrx_repr(d, d, key, GivenNamespace),
                           txt_mtrx_repr(Len(padded) \div d, d, padded, GivenNamespace),
                           GivenNamespace)

\* C10 (as claimed): with an accepted key, a fill letter of the namespace
\* and a source whose characters are namespace symbols in any letter case,
\* cipher ends with a Report whose result_txt is that of cipher on the
\* upper-cased source.
C10_CaseInsensitiveSource ==
    ( /\ op = "cipher"
      /\ Terminal
      /\ Resolved
      /\ KeyAccepted
      /\ fill_letter # NoChar
      /\ FillOverNamespace
      /\ \A i \in 1..Len(source) : InNamespace(ToUpperChar(source[i]), GivenNamespace) )
    => /\ pc = "Reported"
       /\ report.result_txt = CipherOf(to_uppercase(source))

\* C11: a Report holds the key, the source text (not padded), the fill
\* letter and the custom namespace (None for the default) as they were
\* given, and the rendered text; filled is was_filled for cipher, that is
\* whether the source needed padding, and false for decipher.
C11_ReportContents ==
    /\ report.some <=> pc = "Reported"
    /\ pc = "Reported" =>
           /\ report.used_key = key
           /\ report.source_txt = source
           /\ report.fill_letter = fill_letter
           /\ report.def_namespace = namespace
           /\ report.def_namespace.some <=> (ns # DEFAULT_NAMESPACE)
           /\ report.result_txt = result_txt
           /\ op = "cipher" =>
                  /\ report.filled = was_filled
                  /\ report.filled <=> (Len(source) % Dimension # 0)
                  /\ report.filled => Len(report.source_txt) < Len(src_txt)
           /\ op = "decipher" => report.filled = FALSE

\* C11's case: cipher with a custom namespace has padded the source and
\* returned its Report.
C11_Witness ==
    /\ pc = "Reported"
    /\ op = "cipher"
    /\ namespace.some
    /\ report.filled
    /\ report.source_txt = source
    /\ src_txt # source

\* The run stands at a step of cipher or decipher that it can take.
CanStep ==
    \/ pc \in { "Received", "NamespaceResolved", "KeyInverted", "MatrixBuilt", "Rendered" }
    \/ pc = "Validated" /\ op \in { "cipher", "decipher" }
    \/ pc = "Padded" /\ op = "cipher"

\* C12 (as claimed): every run of cipher or decipher, whatever the inputs
\* (a key of length 0 or 1, cipher without a fill letter on a source whose
\* length is not a multiple of d), goes on until it has ended, and it ends
\* in Reported or in Error: it never aborts.
C12_TerminalStates ==
    /\ pc # "Panicked"
    /\ pc \notin { "Reported", "Error" } => CanStep
    /\ pc = "Error" => ~report.some

====
